---------------------------- MODULE Spec2Model ----------------------------
(***************************************************************************)
(* Model of src/app.py, the U.S. Treasury yield curve Streamlit script.    *)
(*                                                                         *)
(* One run of the script is: fetch (memoised) the yield table, derive the  *)
(* picker range, read the selected date, resolve it against the dates of   *)
(* the table, extract that day's row, drop the missing maturities and      *)
(* render exactly one chart.                                               *)
(*                                                                         *)
(* Representation.  A calendar date is an integer day number.  A yield is  *)
(* an integer (hundredths of a percent); NaN marks a missing observation.  *)
(* MATURITY_MAP is kept in twelfths of a year (months), so that 1/12,      *)
(* 3/12 and 6/12 of the source are the exact integers 1, 3 and 6 and       *)
(* 10 years is 120.  A table (DataFrame) is a sequence of rows             *)
(* [date, vals], vals being the 11 cells in column order.                  *)
(***************************************************************************)
EXTENDS Integers, Sequences, FiniteSets, TLC

VARIABLES
    pc,              \* position of the script run
    cache,           \* st.cache_data memo of get_yield_data: <<>> or <<table>>
    fetch_failed,    \* the except branch of get_yield_data was taken
    all_yield_data,  \* the table the run works on
    min_date,        \* picker lower bound
    max_date,        \* picker upper bound
    selected_date,   \* value of the date picker
    actual_date,     \* resolved observation date, or None
    plot_data,       \* sequence of <<maturity, yield>> pairs after dropna
    status,          \* content of status_text_placeholder
    charts,          \* the st.plotly_chart calls of this run, in order
    err              \* exception that ended the run, or "none"

vars == <<pc, cache, fetch_failed, all_yield_data, min_date, max_date,
          selected_date, actual_date, plot_data, status, charts, err>>

---------------------------------------------------------------------------
(* Bounds of the model *)

NumDates == 3        \* the fetch window holds the days 1..NumDates
MaxRows == 3         \* a fetched table has at most MaxRows rows

---------------------------------------------------------------------------
(* Static configuration *)

None == -1           \* Python's None for actual_date
NaN == -1            \* a missing cell of the table
Date2000 == 0        \* datetime.date(2000, 1, 1): before the fetch window
Today == NumDates + 1
EndFetchDate == Today - 1

\* Keys of FRED_SERIES_IDS in insertion order: the column labels.
Columns ==
    <<"1 Mo", "3 Mo", "6 Mo", "1 Yr", "2 Yr", "3 Yr", "5 Yr", "7 Yr",
      "10 Yr", "20 Yr", "30 Yr">>

\* A Python 2 style integer division would turn the three sub-year
\* maturities into 0.
MATURITY_MAP_IntDiv ==
    [l \in {Columns[i] : i \in 1..Len(Columns)} |->
        CASE l = "1 Mo" -> 0 [] l = "3 Mo" -> 0 [] l = "6 Mo" -> 0
          [] l = "1 Yr" -> 12 [] l = "2 Yr" -> 24 [] l = "3 Yr" -> 36
          [] l = "5 Yr" -> 60 [] l = "7 Yr" -> 84 [] l = "10 Yr" -> 120
          [] l = "20 Yr" -> 240 [] l = "30 Yr" -> 360]

\* Maturity of each label, in twelfths of a year.
MATURITY_MAP ==
    [l \in {Columns[i] : i \in 1..Len(Columns)} |->
        CASE l = "1 Mo" -> 1 [] l = "3 Mo" -> 3 [] l = "6 Mo" -> 6
          [] l = "1 Yr" -> 12 [] l = "2 Yr" -> 24 [] l = "3 Yr" -> 36
          [] l = "5 Yr" -> 60 [] l = "7 Yr" -> 84 [] l = "10 Yr" -> 120
          [] l = "20 Yr" -> 240 [] l = "30 Yr" -> 360]

---------------------------------------------------------------------------
(* Tables the provider can return *)

\* The days of the fetch window, start_fetch_date..end_fetch_date.
Dates == 1..EndFetchDate

AllLabels == {Columns[i] : i \in 1..Len(Columns)}

\* Which maturities carry a value on a row.
PresentSets ==
    { {}, AllLabels, {"10 Yr", "30 Yr"} }

Bases == {1, 2}

Cells(P, b) ==
    [i \in 1..Len(Columns) |-> IF Columns[i] \in P THEN 100 * b + i ELSE NaN]

Rows ==
    { [date |-> d, vals |-> Cells(P, b)] : d \in Dates, P \in PresentSets, b \in Bases }

\* FRED returns the observations in chronological order; a timestamp may
\* be repeated.
Chronological(t) ==
    \A i \in 1..Len(t) : \A j \in 1..Len(t) : i <= j => t[i].date <= t[j].date

Tables ==
    { t \in UNION { [1..n -> Rows] : n \in 0..MaxRows } : Chronological(t) }

---------------------------------------------------------------------------
(* pandas / Python helpers *)

\* DataFrame.empty
Empty(df) == Len(df) = 0

\* all_yield_data.index.date: the array of the rows' calendar dates
IndexDate(df) == [i \in 1..Len(df) |-> df[i].date]

\* max() and min() of a non-empty array
PyMax(a) == CHOOSE x \in {a[i] : i \in 1..Len(a)} : \A j \in 1..Len(a) : a[j] <= x
PyMin(a) == CHOOSE x \in {a[i] : i \in 1..Len(a)} : \A j \in 1..Len(a) : x <= a[j]

\* x in array
Contains(a, x) == \E i \in 1..Len(a) : a[i] = x

\* str(date) and strftime('%Y-%m-%d'): the text naming a day; str(None)
\* names no day.
StrDate(d) == IF d = None THEN [text |-> "None", ymd |-> None]
              ELSE [text |-> "ymd", ymd |-> d]

\* df.loc[key] for a date string: the rows of that day, in table order
Loc(df, key) ==
    LET OnDay(r) == key.text = "ymd" /\ r.date = key.ymd
    IN SelectSeq(df, OnDay)

\* dropna() on the two-column frame: keep the rows without a missing cell
DropNa_FillZero(frame) ==
    [i \in 1..Len(frame) |->
        IF frame[i][2] = NaN THEN <<frame[i][1], 0>> ELSE frame[i]]

DropNa(frame) ==
    LET Whole(p) == p[1] # NaN /\ p[2] # NaN
    IN SelectSeq(frame, Whole)

---------------------------------------------------------------------------
(* Messages and charts *)

Msg(level, text, date, ref, prompt) ==
    [level |-> level, text |-> text, date |-> date, ref |-> ref, prompt |-> prompt]

NoDay == StrDate(None)

InitialMsg == Msg("markdown", "select_a_date", NoDay, NoDay, "none")

FetchErrorMsg == Msg("error", "could_not_be_retrieved", NoDay, NoDay, "none")

NoDataOnOrBeforeMsg ==
    Msg("warning", "no_data_on_or_before", StrDate(selected_date), NoDay, "earlier")

ClosestMsg(d) ==
    Msg("info", "showing", StrDate(d), StrDate(selected_date), "none")

ExactMsg(d) == Msg("success", "showing", StrDate(d), NoDay, "none")

NoCompleteMsg_Requested ==
    Msg("warning", "no_complete_data", StrDate(selected_date), NoDay, "none")

NoCompleteMsg ==
    Msg("warning", "no_complete_data", StrDate(actual_date), NoDay, "none")

Annotation(text) ==
    [kind |-> "annotation", text |-> text, points |-> <<>>, title |-> NoDay]

Figure(points, d) ==
    [kind |-> "figure", text |-> "yield_curve", points |-> points, title |-> StrDate(d)]

---------------------------------------------------------------------------
(* The script *)

\* line 48: the initial load produced nothing
InitialLoadFailed(df) == Empty(df)

MinDate_Fallback(df) == Date2000

MinDate(df) == IF InitialLoadFailed(df) THEN Date2000 ELSE PyMin(IndexDate(df))

MaxDate(df) == IF InitialLoadFailed(df) THEN Today ELSE PyMax(IndexDate(df))

\* get_yield_data, cache miss, DataReader succeeded
FetchOK ==
    /\ pc = "fetch"
    /\ cache = <<>>
    /\ \E t \in Tables :
        /\ all_yield_data' = t
        /\ cache' = <<t>>
        /\ min_date' = MinDate(t)
        /\ max_date' = MaxDate(t)
    /\ fetch_failed' = FALSE
    /\ pc' = "pick"
    /\ UNCHANGED <<selected_date, actual_date, plot_data, status, charts, err>>

\* get_yield_data, cache miss, DataReader raised: the empty DataFrame
FetchFail ==
    /\ pc = "fetch"
    /\ cache = <<>>
    /\ all_yield_data' = <<>>
    /\ cache' = << <<>> >>
    /\ min_date' = MinDate(<<>>)
    /\ max_date' = MaxDate(<<>>)
    /\ fetch_failed' = TRUE
    /\ pc' = "pick"
    /\ UNCHANGED <<selected_date, actual_date, plot_data, status, charts, err>>

\* get_yield_data, cache hit: the memoised table
FetchCached ==
    /\ pc = "fetch"
    /\ cache # <<>>
    /\ all_yield_data' = cache[1]
    /\ min_date' = MinDate(cache[1])
    /\ max_date' = MaxDate(cache[1])
    /\ pc' = "pick"
    /\ UNCHANGED <<cache, fetch_failed, selected_date, actual_date, plot_data,
                   status, charts, err>>

\* st.sidebar.date_input with min_value and max_value, then the initial
\* status message
PickDate ==
    /\ pc = "pick"
    /\ \E d \in min_date..max_date : selected_date' = d
    /\ status' = InitialMsg
    /\ pc' = "resolve"
    /\ UNCHANGED <<cache, fetch_failed, all_yield_data, min_date, max_date,
                   actual_date, plot_data, charts, err>>

\* line 91
NoDataToPlot_Unchecked == FALSE

NoDataToPlot == Empty(all_yield_data)

\* line 104: the dates on or before d (the faulty variant keeps them all)
ValidDates_All(available_dates, d) == available_dates

ValidDates(available_dates, d) ==
    LET OnOrBefore(x) == x <= d
    IN SelectSeq(available_dates, OnOrBefore)

\* line 109: the latest of them (the faulty variant takes the earliest)
NearestDate_Min(valid_dates) == PyMin(valid_dates)

NearestDate(valid_dates) == PyMax(valid_dates)

\* lines 91-114
ResolveDate ==
    /\ pc = "resolve"
    /\ IF NoDataToPlot
       THEN /\ status' = FetchErrorMsg
            /\ charts' = Append(charts, Annotation("No data available"))
            /\ actual_date' = actual_date
            /\ pc' = "done"
       ELSE LET available_dates == IndexDate(all_yield_data)
                valid_dates == ValidDates(available_dates, selected_date)
            IN /\ IF ~Contains(available_dates, selected_date)
                  THEN IF Len(valid_dates) = 0
                       THEN /\ status' = NoDataOnOrBeforeMsg
                            /\ charts' = Append(charts,
                                  Annotation("No data available for this date range"))
                            /\ actual_date' = None
                       ELSE /\ actual_date' = NearestDate(valid_dates)
                            /\ status' = ClosestMsg(NearestDate(valid_dates))
                            /\ charts' = charts
                  ELSE /\ actual_date' = selected_date
                       /\ status' = ExactMsg(selected_date)
                       /\ charts' = charts
               /\ pc' = "extract"
    /\ UNCHANGED <<cache, fetch_failed, all_yield_data, min_date, max_date,
                   selected_date, plot_data, err>>

\* line 116
HasActualDate_Always == TRUE

HasActualDate == actual_date # None

\* lines 119-120
DailyData_First(rows) == rows[1].vals

DailyData(rows) == IF Len(rows) > 1 THEN rows[Len(rows)].vals ELSE rows[1].vals

\* lines 122-124: the two-column frame before dropna
Frame(daily_data) ==
    [i \in 1..Len(Columns) |-> <<MATURITY_MAP[Columns[i]], daily_data[i]>>]

\* lines 116-125
ExtractCurve ==
    /\ pc = "extract"
    /\ IF ~HasActualDate
       THEN /\ pc' = "done"
            /\ UNCHANGED <<plot_data, err>>
       ELSE LET rows == Loc(all_yield_data, StrDate(actual_date))
            IN IF Len(rows) = 0
               THEN /\ pc' = "failed"
                    /\ err' = "KeyError"
                    /\ UNCHANGED plot_data
               ELSE IF \E i \in 1..Len(Columns) : Columns[i] \notin DOMAIN MATURITY_MAP
               THEN /\ pc' = "failed"
                    /\ err' = "KeyError"
                    /\ UNCHANGED plot_data
               ELSE /\ plot_data' = DropNa(Frame(DailyData(rows)))
                    /\ pc' = "render"
                    /\ UNCHANGED err
    /\ UNCHANGED <<cache, fetch_failed, all_yield_data, min_date, max_date,
                   selected_date, actual_date, status, charts>>

\* lines 127-154
RenderCurve ==
    /\ pc = "render"
    /\ IF Len(plot_data) = 0
       THEN /\ status' = NoCompleteMsg
            /\ charts' = Append(charts, Annotation("No complete data for this date"))
       ELSE /\ charts' = Append(charts, Figure(plot_data, actual_date))
            /\ UNCHANGED status
    /\ pc' = "done"
    /\ UNCHANGED <<cache, fetch_failed, all_yield_data, min_date, max_date,
                   selected_date, actual_date, plot_data, err>>

\* A widget interaction reruns the script from the top.
Rerun ==
    /\ pc = "done"
    /\ pc' = "fetch"
    /\ actual_date' = None
    /\ plot_data' = <<>>
    /\ charts' = <<>>
    /\ status' = InitialMsg
    /\ UNCHANGED <<cache, fetch_failed, all_yield_data, min_date, max_date,
                   selected_date, err>>

---------------------------------------------------------------------------
(* Specifications *)

\* The script as deployed: a new session, nothing fetched yet.
Init ==
    /\ pc = "fetch"
    /\ cache = <<>>
    /\ fetch_failed = FALSE
    /\ all_yield_data = <<>>
    /\ min_date = Date2000
    /\ max_date = Today
    /\ selected_date = Today
    /\ actual_date = None
    /\ plot_data = <<>>
    /\ status = InitialMsg
    /\ charts = <<>>
    /\ err = "none"

Next ==
    \/ FetchOK
    \/ FetchFail
    \/ FetchCached
    \/ PickDate
    \/ ResolveDate
    \/ ExtractCurve
    \/ RenderCurve
    \/ Rerun

Spec == Init /\ [][Next]_vars

\* The plotting logic (lines 91-154) on any table and any requested date,
\* also one outside the picker range.
RequestedDates == Date2000..Today

InitResolve ==
    /\ pc = "resolve"
    /\ all_yield_data \in Tables
    /\ cache = <<all_yield_data>>
    /\ fetch_failed \in {b \in BOOLEAN : b => Empty(all_yield_data)}
    /\ min_date = MinDate(all_yield_data)
    /\ max_date = MaxDate(all_yield_data)
    /\ selected_date \in RequestedDates
    /\ actual_date = None
    /\ plot_data = <<>>
    /\ status = InitialMsg
    /\ charts = <<>>
    /\ err = "none"

NextResolve ==
    \/ ResolveDate
    \/ ExtractCurve
    \/ RenderCurve

SpecResolve == InitResolve /\ [][NextResolve]_vars

---------------------------------------------------------------------------
(* Vocabulary of the properties *)

\* The outcome of a run, read off the chart it rendered last.
Outcome ==
    IF Len(charts) = 0 THEN "none"
    ELSE LET c == charts[Len(charts)]
         IN CASE c.kind = "figure" -> "Curve"
              [] c.kind = "annotation" /\ c.text = "No data available" -> "NoData"
              [] c.kind = "annotation" /\ c.text = "No data available for this date range"
                    -> "NoDateOnOrBefore"
              [] c.kind = "annotation" /\ c.text = "No complete data for this date"
                    -> "EmptyCurve"
              [] OTHER -> "unknown"

SeriesDates == {all_yield_data[i].date : i \in 1..Len(all_yield_data)}

DatesOnOrBefore == {d \in SeriesDates : d <= selected_date}

Greatest(S) == CHOOSE d \in S : \A e \in S : e <= d

Least(S) == CHOOSE d \in S : \A e \in S : d <= e

RowsOn(d) == {i \in 1..Len(all_yield_data) : all_yield_data[i].date = d}

\* The cells of the last row of the table dated d.
LastRecordOn(d) == all_yield_data[Greatest(RowsOn(d))].vals

PresentOn(d) == {i \in 1..Len(Columns) : LastRecordOn(d)[i] # NaN}

Resolved == pc \in {"extract", "render", "done"}

Extracted == pc \in {"render", "done"}

Figures == {k \in 1..Len(charts) : charts[k].kind = "figure"}

---------------------------------------------------------------------------
(* Properties *)

\* C1: on a non-empty series with a series date on or before the requested
\* date, actual_date is the greatest series date <= the requested date, and
\* the run reports an exact match exactly when that date is the requested
\* one (a requested date of the series resolves to itself, one after the
\* last series date resolves to the last series date, inexact).
C1_NearestOnOrBefore ==
    (Resolved /\ ~Empty(all_yield_data) /\ DatesOnOrBefore # {}) =>
        /\ actual_date = Greatest(DatesOnOrBefore)
        /\ (selected_date \in SeriesDates => actual_date = selected_date)
        /\ (\A d \in SeriesDates : d < selected_date) =>
                actual_date = Greatest(SeriesDates)
        /\ (pc \in {"extract", "render"} \/ Outcome = "Curve") =>
                /\ status.level \in {"success", "info"}
                /\ status.date = StrDate(actual_date)
                /\ (status.level = "success") <=> (actual_date = selected_date)
        /\ pc = "done" => Outcome \in {"Curve", "EmptyCurve"}

C1_Witness ==
    /\ pc = "done"
    /\ Outcome = "Curve"
    /\ status.level = "info"
    /\ actual_date < selected_date
    /\ \E d \in SeriesDates : d < actual_date

\* C2: on a non-empty series whose earliest date is after the requested
\* date the outcome is NoDateOnOrBefore: the warning names the requested
\* date, no actual_date is resolved and no curve is produced.
C2_NoDateOnOrBefore ==
    (pc # "resolve" /\ ~Empty(all_yield_data)
        /\ \A d \in SeriesDates : selected_date < d) =>
        /\ pc \in {"extract", "done"}
        /\ actual_date = None
        /\ plot_data = <<>>
        /\ status.level = "warning"
        /\ status.text = "no_data_on_or_before"
        /\ status.date = StrDate(selected_date)
        /\ charts = <<Annotation("No data available for this date range")>>
        /\ Outcome = "NoDateOnOrBefore"

C2_Witness ==
    /\ pc = "done"
    /\ Len(all_yield_data) = 2
    /\ Least(SeriesDates) = 2
    /\ selected_date = 1
    /\ Outcome = "NoDateOnOrBefore"

\* C3: a failed fetch degrades to the empty table, and on an empty table
\* every run ends in NoData, whatever the requested date, without
\* resolving a date or extracting a curve.
C3_NoData ==
    /\ fetch_failed => Empty(all_yield_data)
    /\ Empty(all_yield_data) =>
        /\ pc \notin {"extract", "render", "failed"}
        /\ actual_date = None
        /\ plot_data = <<>>
        /\ pc = "done" =>
            /\ Outcome = "NoData"
            /\ charts = <<Annotation("No data available")>>
            /\ status.level = "error"

C3_Witness ==
    /\ pc = "done"
    /\ fetch_failed
    /\ selected_date = 2
    /\ Outcome = "NoData"

\* C4: the PlotSet holds exactly one point (maturity of the label, value)
\* for each label with a value on actual_date and no point for a label
\* without one: absent maturities are omitted, never zero-filled.
C4_PlotSetIsPresentMaturities ==
    (Extracted /\ actual_date # None) =>
        /\ \A i \in 1..Len(Columns) :
            LET m == MATURITY_MAP[Columns[i]]
                v == LastRecordOn(actual_date)[i]
                at == {k \in 1..Len(plot_data) : plot_data[k][1] = m}
            IN IF v # NaN
               THEN Cardinality(at) = 1 /\ \A k \in at : plot_data[k] = <<m, v>>
               ELSE at = {}
        /\ Len(plot_data) = Cardinality(PresentOn(actual_date))

C4_Witness ==
    /\ pc = "done"
    /\ actual_date # None
    /\ {Columns[i] : i \in PresentOn(actual_date)} = {"10 Yr", "30 Yr"}
    /\ plot_data = << <<120, LastRecordOn(actual_date)[9]>>,
                      <<360, LastRecordOn(actual_date)[11]>> >>
    /\ Outcome = "Curve"

\* C5: the points of every PlotSet, and of every rendered figure, are
\* strictly increasing in maturity in sequence order, and every maturity
\* is that of one of the 11 configured labels.
C5_StrictlyIncreasing ==
    LET Increasing(p) == \A k \in 1..(Len(p) - 1) : p[k][1] < p[k + 1][1]
        Configured(p) ==
            \A k \in 1..Len(p) : \E i \in 1..Len(Columns) :
                Columns[i] \in AllLabels /\ p[k][1] = MATURITY_MAP[Columns[i]]
    IN /\ Increasing(plot_data)
       /\ Configured(plot_data)
       /\ Len(plot_data) <= 11
       /\ \A c \in Figures : Increasing(charts[c].points) /\ Configured(charts[c].points)

C5_Witness ==
    /\ pc = "done"
    /\ Outcome = "Curve"
    /\ Len(plot_data) = 11
    /\ charts[1].points = plot_data

\* C6: a resolved date with no value on any maturity ends in EmptyCurve,
\* the final status being a warning that names actual_date, with no curve
\* rendered; a resolved date with at least one value ends in Curve.
C6_EmptyCurve ==
    (pc = "done" /\ actual_date # None) =>
        IF PresentOn(actual_date) = {}
        THEN /\ Outcome = "EmptyCurve"
             /\ Figures = {}
             /\ status.level = "warning"
             /\ status.text = "no_complete_data"
             /\ status.date = StrDate(actual_date)
        ELSE /\ Outcome = "Curve"
             /\ charts[Len(charts)].points = plot_data
             /\ charts[Len(charts)].title = StrDate(actual_date)

C6_Witness ==
    /\ pc = "done"
    /\ actual_date # None
    /\ actual_date # selected_date
    /\ PresentOn(actual_date) = {}
    /\ Outcome = "EmptyCurve"

\* C7: no run fails with an error; a run that has not finished can take
\* its next step, and a finished run has rendered exactly one chart, that
\* of one of the four outcomes.
C7_OneOutcomeNoError ==
    /\ pc # "failed"
    /\ err = "none"
    /\ pc \in {"resolve", "extract", "render", "done"}
    /\ pc # "done" => ENABLED NextResolve
    /\ Len(charts) <= 1
    /\ pc = "done" =>
        /\ Len(charts) = 1
        /\ Outcome \in {"NoData", "NoDateOnOrBefore", "EmptyCurve", "Curve"}

C7_Witness ==
    /\ pc = "done"
    /\ ~Empty(all_yield_data)
    /\ actual_date = None
    /\ Len(charts) = 1
    /\ Outcome = "NoDateOnOrBefore"

\* C8: when no series date lies on or before the requested date, the user
\* is prompted to select a later date.
C8_PromptsLaterDate ==
    Outcome = "NoDateOnOrBefore" => status.prompt = "later"

\* C9: when several rows carry actual_date, the PlotSet is built from the
\* last of them in series order, for every maturity.
C9_LastDuplicateWins ==
    (Extracted /\ actual_date # None /\ Cardinality(RowsOn(actual_date)) > 1) =>
        LET last == all_yield_data[Greatest(RowsOn(actual_date))].vals
        IN /\ \A k \in 1..Len(plot_data) : \E i \in 1..Len(Columns) :
                plot_data[k] = <<MATURITY_MAP[Columns[i]], last[i]>>
           /\ \A i \in 1..Len(Columns) :
                last[i] # NaN =>
                    \E k \in 1..Len(plot_data) :
                        plot_data[k] = <<MATURITY_MAP[Columns[i]], last[i]>>

C9_Witness ==
    /\ pc = "done"
    /\ Len(all_yield_data) = 2
    /\ all_yield_data[1].date = actual_date
    /\ all_yield_data[2].date = actual_date
    /\ \A i \in 1..Len(Columns) : all_yield_data[1].vals[i] # NaN
    /\ \A i \in 1..Len(Columns) :
            all_yield_data[2].vals[i] # all_yield_data[1].vals[i]
    /\ Len(plot_data) = 2
    /\ Outcome = "Curve"

\* C10: with a non-empty series the picker keeps the requested date within
\* [min_date, max_date] of the series, so NoDateOnOrBefore is never
\* reached: a date is resolved, min_date <= actual_date <= requested date,
\* and the outcome is Curve or EmptyCurve.
C10_PickerRangeResolves ==
    (~Empty(all_yield_data) /\ pc \in {"resolve", "extract", "render", "done", "failed"}) =>
        /\ min_date = Least(SeriesDates)
        /\ max_date = Greatest(SeriesDates)
        /\ min_date <= selected_date
        /\ selected_date <= max_date
        /\ pc # "resolve" =>
            /\ actual_date # None
            /\ min_date <= actual_date
            /\ actual_date <= selected_date
            /\ Outcome # "NoDateOnOrBefore"
        /\ pc = "done" => Outcome \in {"Curve", "EmptyCurve"}

C10_Witness ==
    /\ pc = "done"
    /\ ~Empty(all_yield_data)
    /\ min_date < max_date
    /\ actual_date = min_date
    /\ actual_date < selected_date
    /\ selected_date < max_date
    /\ Outcome = "Curve"

=============================================================================
